---- MODULE Spec2Model ----
(***************************************************************************)
(* libcore/char/mod.rs: digit conversion, UTF-8 / UTF-16 length and        *)
(* fixed-buffer encoding, and the escape iterators of `char`.              *)
(*                                                                         *)
(* A `char` is modelled by its code point (`self as u32`), a buffer        *)
(* `&mut [u8]` / `&mut [u16]` by a sequence of units (Rust index i is      *)
(* TLA+ index i + 1), an `Option` / a panic by a record with a `kind`.     *)
(***************************************************************************)
EXTENDS Integers, Sequences, FiniteSets, TLC

VARIABLES
    c,      \* the char the methods are called on (`self`)
    op,     \* the last call made: the position of the calling program
    radix,  \* the radix passed to the last digit conversion
    dst,    \* the caller's buffer handed to the encoders
    ret,    \* what the last call returned (or the panic it raised)
    iter,   \* the escape iterator the caller holds
    out,    \* the chars the iterator has yielded so far
    oracle, \* what is_printable answered for c, once escape_debug asked
    copy,   \* a clone of the iterator, with the iterator as it was when cloned
    arg     \* the offset passed to the last call, 0 when it took none

vars == <<c, op, radix, dst, ret, iter, out, oracle, copy, arg>>

(***************************************************************************)
(* Bounds of the model.                                                    *)
(***************************************************************************)
\* chars 0..LowMax are all enumerated
LowMax == 300
\* above LowMax every Step-th code point is taken
Step == 1021
\* buffers of capacity 0..MaxCap are handed to the encoders
MaxCap == 5
\* radixes 0..MaxRadix are passed to the digit conversions
MaxRadix == 38
\* offsets 0..MaxNth are passed to nth()
MaxNth == 3
\* the iterators' methods are called in any order on the chars 0..IterLowMax
\* (and on the chars around each change of the number of hex digits)
IterLowMax == 160

(***************************************************************************)
(* Constants of the source.                                                *)
(***************************************************************************)
TAG_CONT == 128
TAG_TWO_B == 192
TAG_THREE_B == 224
TAG_FOUR_B == 240
MAX_ONE_B == 128
MAX_TWO_B == 2048
MAX_THREE_B == 65536
MAX == 1114111

\* char literals of the source
Ch_0 == 48
Ch_9 == 57
Ch_a == 97
Ch_z == 122
Ch_A == 65
Ch_Z == 90
Ch_Backslash == 92
Ch_u == 117
Ch_LeftBrace == 123
Ch_RightBrace == 125
Ch_Tab == 9
Ch_CR == 13
Ch_LF == 10
Ch_SingleQuote == 39
Ch_DoubleQuote == 34
Ch_t == 116
Ch_r == 114
Ch_n == 110
Ch_Space == 32
Ch_Tilde == 126

(***************************************************************************)
(* u32 / u8 / u16 arithmetic as the source uses it.                        *)
(***************************************************************************)
RECURSIVE BitAnd(_, _)
BitAnd(a, b) ==
    IF a = 0 \/ b = 0 THEN 0
    ELSE (a % 2) * (b % 2) + 2 * BitAnd(a \div 2, b \div 2)

RECURSIVE BitOr(_, _)
BitOr(a, b) ==
    IF a = 0 THEN b
    ELSE IF b = 0 THEN a
    ELSE (IF a % 2 = 1 \/ b % 2 = 1 THEN 1 ELSE 0) + 2 * BitOr(a \div 2, b \div 2)

Shr(a, k) == a \div (2 ^ k)

AsU8(a) == a % 256

AsU16(a) == a % 65536

\* a u32 as its two 16-bit halves
Halves(a) == [hi |-> a \div 65536, lo |-> a % 65536]

\* `a - b` on u32 wraps in a build without overflow checks: computed on the
\* 16-bit halves of the operands, with the borrow
WrappingSub32(a, b) ==
    LET x == Halves(a)
        y == Halves(b)
        borrow == IF x.lo < y.lo THEN 1 ELSE 0
    IN  [hi |-> (x.hi - y.hi - borrow + 65536) % 65536,
         lo |-> (x.lo - y.lo + 65536) % 65536]

\* `(x >> 10) as u16` of a u32 given by its halves: bits 10..25
Shr10AsU16(x) == (x.hi * 64 + x.lo \div 1024) % 65536

RECURSIVE BitLen(_)
BitLen(a) == IF a = 0 THEN 0 ELSE 1 + BitLen(a \div 2)

\* u32::leading_zeros
leading_zeros(a) == 32 - BitLen(a)

(***************************************************************************)
(* Values of the model.                                                    *)
(***************************************************************************)
\* a char is a Unicode scalar value: a code point that is no surrogate
IsScalar(v) == v \in 0..MAX /\ ~(v \in 55296..57343)

\* Option<T>
Some(v) == [kind |-> "Some", val |-> v]

None == [kind |-> "None"]

\* a panic, with the arguments of its message
Panic(fn, args) == [kind |-> "Panic", fn |-> fn, args |-> args]

NoRet == [kind |-> "NoRet"]

NoIter == [kind |-> "NoIter"]

\* the chars the model calls the methods on: every char up to LowMax, the
\* chars around each boundary of the encodings, around each power of two,
\* and every Step-th code point
Near(S) == {v + d : v \in S, d \in {-2, -1, 0, 1, 2}}

Chars ==
    {v \in (0..LowMax)
           \cup Near({128, 2048, 55296, 57344, 65536, 66560, 128512, 1114110})
           \cup Near({2 ^ k : k \in 2..20})
           \cup {k * Step : k \in 0..(MAX \div Step)} :
        IsScalar(v)}

(***************************************************************************)
(* Length calculators.                                                     *)
(***************************************************************************)
len_utf8(self) ==
    LET code == self
    IN  IF code < MAX_ONE_B THEN 1
        ELSE IF code < MAX_TWO_B THEN 2
        ELSE IF code < MAX_THREE_B THEN 3
        ELSE 4

\* the 16-bit test off by one: U+FFFF taken for a supplementary char
len_utf16_boundary(self) ==
    LET ch == self
    IN  IF ch < 65535 THEN 1 ELSE 2

len_utf16(self) ==
    LET ch == self
    IN  IF BitAnd(ch, 65535) = ch THEN 1 ELSE 2

\* from_u32_unchecked(code): the char with that code point
from_u32_unchecked(code) == code

(***************************************************************************)
(* Fixed-buffer encoders.  Each returns the buffer after the call and      *)
(* either the length of the returned view or the panic.                    *)
(***************************************************************************)
\* *dst.get_unchecked_mut(i) = v
Put(d, i, v) == [d EXCEPT ![i + 1] = v]

Written(d, len) == [kind |-> "Ok", dst |-> d, len |-> len]

Failed(d, p) == [kind |-> "Panic", dst |-> d, panic |-> p]

encode_utf8_panic(code, d) ==
    Panic("encode_utf8", <<len_utf8(from_u32_unchecked(code)), code, Len(d)>>)

\* the bytes of the 2-, 3- and 4-byte forms
encode_utf8_two(code) ==
    <<BitOr(AsU8(BitAnd(Shr(code, 6), 31)), TAG_TWO_B),
      BitOr(AsU8(BitAnd(code, 63)), TAG_CONT)>>

\* the middle byte masked like the leading byte of the 2-byte form
encode_utf8_three_mask(code) ==
    <<BitOr(AsU8(BitAnd(Shr(code, 12), 15)), TAG_THREE_B),
      BitOr(AsU8(BitAnd(Shr(code, 6), 31)), TAG_CONT),
      BitOr(AsU8(BitAnd(code, 63)), TAG_CONT)>>

encode_utf8_three(code) ==
    <<BitOr(AsU8(BitAnd(Shr(code, 12), 15)), TAG_THREE_B),
      BitOr(AsU8(BitAnd(Shr(code, 6), 63)), TAG_CONT),
      BitOr(AsU8(BitAnd(code, 63)), TAG_CONT)>>

encode_utf8_four(code) ==
    <<BitOr(AsU8(BitAnd(Shr(code, 18), 7)), TAG_FOUR_B),
      BitOr(AsU8(BitAnd(Shr(code, 12), 63)), TAG_CONT),
      BitOr(AsU8(BitAnd(Shr(code, 6), 63)), TAG_CONT),
      BitOr(AsU8(BitAnd(code, 63)), TAG_CONT)>>

\* a boundary test off by one: U+0080 taken for a one-byte char
encode_utf8_boundary(self, d) ==
    LET code == self
    IN  IF code <= MAX_ONE_B /\ Len(d) # 0 THEN
            Written(Put(d, 0, AsU8(code)), 1)
        ELSE IF code < MAX_TWO_B /\ Len(d) >= 2 THEN
            Written(Put(Put(d,
                0, encode_utf8_two(code)[1]),
                1, encode_utf8_two(code)[2]), 2)
        ELSE IF code < MAX_THREE_B /\ Len(d) >= 3 THEN
            Written(Put(Put(Put(d,
                0, encode_utf8_three(code)[1]),
                1, encode_utf8_three(code)[2]),
                2, encode_utf8_three(code)[3]), 3)
        ELSE IF Len(d) >= 4 THEN
            Written(Put(Put(Put(Put(d,
                0, encode_utf8_four(code)[1]),
                1, encode_utf8_four(code)[2]),
                2, encode_utf8_four(code)[3]),
                3, encode_utf8_four(code)[4]), 4)
        ELSE
            Failed(d, encode_utf8_panic(code, d))

encode_utf8(self, d) ==
    LET code == self
    IN  IF code < MAX_ONE_B /\ Len(d) # 0 THEN
            Written(Put(d, 0, AsU8(code)), 1)
        ELSE IF code < MAX_TWO_B /\ Len(d) >= 2 THEN
            Written(Put(Put(d,
                0, encode_utf8_two(code)[1]),
                1, encode_utf8_two(code)[2]), 2)
        ELSE IF code < MAX_THREE_B /\ Len(d) >= 3 THEN
            Written(Put(Put(Put(d,
                0, encode_utf8_three(code)[1]),
                1, encode_utf8_three(code)[2]),
                2, encode_utf8_three(code)[3]), 3)
        ELSE IF Len(d) >= 4 THEN
            Written(Put(Put(Put(Put(d,
                0, encode_utf8_four(code)[1]),
                1, encode_utf8_four(code)[2]),
                2, encode_utf8_four(code)[3]),
                3, encode_utf8_four(code)[4]), 4)
        ELSE
            Failed(d, encode_utf8_panic(code, d))

\* the two counts of the message swapped
encode_utf16_panic_swapped(code, d) ==
    Panic("encode_utf16", <<Len(d), code, len_utf16(from_u32_unchecked(code))>>)

encode_utf16_panic(code, d) ==
    Panic("encode_utf16", <<len_utf16(from_u32_unchecked(code)), code, Len(d)>>)

\* `code -= 0x1_0000` forgotten
encode_utf16_surrogates_nosub(code0) ==
    LET code == Halves(code0)
    IN  <<BitOr(55296, Shr10AsU16(code)),
          BitOr(56320, BitAnd(code.lo, 1023))>>

\* the two units of a supplementary-plane char
encode_utf16_surrogates(code0) ==
    LET code == WrappingSub32(code0, 65536)
    IN  <<BitOr(55296, Shr10AsU16(code)),
          BitOr(56320, BitAnd(code.lo, 1023))>>

\* the first unit written before the capacity for the second is tested
encode_utf16_partial(self, d, overflow_checks) ==
    LET code == self
    IN  IF BitAnd(code, 65535) = code /\ Len(d) # 0 THEN
            Written(Put(d, 0, AsU16(code)), 1)
        ELSE IF Len(d) >= 2 THEN
            Written(Put(Put(d,
                0, encode_utf16_surrogates(code)[1]),
                1, encode_utf16_surrogates(code)[2]), 2)
        ELSE IF Len(d) >= 1 THEN
            Failed(Put(d, 0, encode_utf16_surrogates(code)[1]),
                   encode_utf16_panic(code, d))
        ELSE
            Failed(d, encode_utf16_panic(code, d))

\* the test for one unit made with the mask 0x7FFF
encode_utf16_narrow_mask(self, d, overflow_checks) ==
    LET code == self
    IN  IF BitAnd(code, 32767) = code /\ Len(d) # 0 THEN
            Written(Put(d, 0, AsU16(code)), 1)
        ELSE IF Len(d) >= 2 THEN
            IF overflow_checks /\ code < 65536 THEN
                Failed(d, Panic("attempt to subtract with overflow", <<>>))
            ELSE
                Written(Put(Put(d,
                    0, encode_utf16_surrogates(code)[1]),
                    1, encode_utf16_surrogates(code)[2]), 2)
        ELSE
            Failed(d, encode_utf16_panic(code, d))

\* `overflow_checks`: whether the build panics on arithmetic overflow
\* (it wraps otherwise)
encode_utf16(self, d, overflow_checks) ==
    LET code == self
    IN  IF BitAnd(code, 65535) = code /\ Len(d) # 0 THEN
            Written(Put(d, 0, AsU16(code)), 1)
        ELSE IF Len(d) >= 2 THEN
            IF overflow_checks /\ code < 65536 THEN
                Failed(d, Panic("attempt to subtract with overflow", <<>>))
            ELSE
                Written(Put(Put(d,
                    0, encode_utf16_surrogates(code)[1]),
                    1, encode_utf16_surrogates(code)[2]), 2)
        ELSE
            Failed(d, encode_utf16_panic(code, d))

\* what the caller gets back: the view `dst[..len]`, or the panic
Returned(r) ==
    IF r.kind = "Ok"
    THEN [kind |-> "Ok", view |-> SubSeq(r.dst, 1, r.len)]
    ELSE r.panic

(***************************************************************************)
(* Digit conversion.                                                       *)
(***************************************************************************)
\* the letters 'A'..'Z' counted from 0: the `+ 10` forgotten
to_digit_val_upper(self) ==
    IF self \in Ch_0..Ch_9 THEN Some(self - Ch_0)
    ELSE IF self \in Ch_a..Ch_z THEN Some(self - Ch_a + 10)
    ELSE IF self \in Ch_A..Ch_Z THEN Some(self - Ch_A)
    ELSE None

\* the `match self` of to_digit: the digit's value whatever the radix, or
\* None for the arm that returns
to_digit_val(self) ==
    IF self \in Ch_0..Ch_9 THEN Some(self - Ch_0)
    ELSE IF self \in Ch_a..Ch_z THEN Some(self - Ch_a + 10)
    ELSE IF self \in Ch_A..Ch_Z THEN Some(self - Ch_A + 10)
    ELSE None

\* `val <= radix` for `val < radix`
to_digit_le(self, rdx) ==
    IF rdx > 36 THEN Panic("to_digit: radix is too high (maximum 36)", <<>>)
    ELSE LET val == to_digit_val(self)
         IN  IF val.kind = "None" THEN None
             ELSE IF val.val <= rdx THEN Some(val.val)
             ELSE None

\* the radix tested only once the char is known to be a digit or a letter
to_digit_late_check(self, rdx) ==
    LET val == to_digit_val(self)
    IN  IF val.kind = "None" THEN None
        ELSE IF rdx > 36
        THEN Panic("to_digit: radix is too high (maximum 36)", <<>>)
        ELSE IF val.val < rdx THEN Some(val.val)
        ELSE None

to_digit(self, rdx) ==
    IF rdx > 36 THEN Panic("to_digit: radix is too high (maximum 36)", <<>>)
    ELSE LET val == to_digit_val(self)
         IN  IF val.kind = "None" THEN None
             ELSE IF val.val < rdx THEN Some(val.val)
             ELSE None

\* a bool
Bool(b) == [kind |-> "Bool", val |-> b]

\* self.to_digit(radix).is_some(): the panic of to_digit passes through
is_digit(self, rdx) ==
    LET r == to_digit(self, rdx)
    IN  IF r.kind = "Panic" THEN r ELSE Bool(r.kind = "Some")

\* char::from_digit (char/convert.rs): the digit's char, the letters in
\* lower case; None when num >= radix
from_digit(num, rdx) ==
    IF rdx > 36 THEN Panic("from_digit: radix is too large (maximum 36)", <<>>)
    ELSE IF num < rdx
         THEN IF num < 10 THEN Some(Ch_0 + num) ELSE Some(Ch_a + num - 10)
         ELSE None

(***************************************************************************)
(* The unicode escape iterator.                                            *)
(***************************************************************************)
\* one hex digit too many: the index of the digit above the most significant
escape_unicode_extra(self) ==
    LET code == self
        msb == 31 - leading_zeros(BitOr(code, 1))
        ms_hex_digit == msb \div 4 + 1
    IN  [kind |-> "EscapeUnicode", c |-> self, state |-> "Backslash",
         hex_digit_idx |-> ms_hex_digit]

\* the division by 4 forgotten: the index of the bit, not of the hex digit
escape_unicode_no_div(self) ==
    LET code == self
        msb == 31 - leading_zeros(BitOr(code, 1))
    IN  [kind |-> "EscapeUnicode", c |-> self, state |-> "Backslash",
         hex_digit_idx |-> msb]

\* `| 1` forgotten: for U+0000 the subtraction 31 - 32 wraps around u32
escape_unicode_no_or(self) ==
    LET code == self
        lz == leading_zeros(code)
        ms_hex_digit == IF lz > 31 THEN 1073741823 ELSE (31 - lz) \div 4
    IN  [kind |-> "EscapeUnicode", c |-> self, state |-> "Backslash",
         hex_digit_idx |-> ms_hex_digit]

escape_unicode(self) ==
    LET code == self
        msb == 31 - leading_zeros(BitOr(code, 1))
        ms_hex_digit == msb \div 4
    IN  [kind |-> "EscapeUnicode", c |-> self, state |-> "Backslash",
         hex_digit_idx |-> ms_hex_digit]

\* what a call of next() leaves: the iterator and the returned Option
Step2(it, r) == [iter |-> it, ret |-> r]

\* the test for the last digit made one digit early: hex_digit_idx <= 1
EscapeUnicode_next_early_brace(self) ==
    CASE self.state = "Backslash" ->
             Step2([self EXCEPT !.state = "Type"], Some(Ch_Backslash))
      [] self.state = "Type" ->
             Step2([self EXCEPT !.state = "LeftBrace"], Some(Ch_u))
      [] self.state = "LeftBrace" ->
             Step2([self EXCEPT !.state = "Value"], Some(Ch_LeftBrace))
      [] self.state = "Value" ->
             LET hex_digit == BitAnd(Shr(self.c, self.hex_digit_idx * 4), 15)
                 ch == from_digit(hex_digit, 16)
             IN  IF ch.kind # "Some"
                 THEN Step2(self,
                          Panic("called Option::unwrap() on a None value", <<>>))
                 ELSE IF self.hex_digit_idx <= 1
                 THEN Step2([self EXCEPT !.state = "RightBrace"], ch)
                 ELSE Step2([self EXCEPT !.hex_digit_idx = @ - 1], ch)
      [] self.state = "RightBrace" ->
             Step2([self EXCEPT !.state = "Done"], Some(Ch_RightBrace))
      [] self.state = "Done" -> Step2(self, None)

\* the RightBrace arm without its assignment of Done
EscapeUnicode_next_no_done(self) ==
    CASE self.state = "Backslash" ->
             Step2([self EXCEPT !.state = "Type"], Some(Ch_Backslash))
      [] self.state = "Type" ->
             Step2([self EXCEPT !.state = "LeftBrace"], Some(Ch_u))
      [] self.state = "LeftBrace" ->
             Step2([self EXCEPT !.state = "Value"], Some(Ch_LeftBrace))
      [] self.state = "Value" ->
             LET hex_digit == BitAnd(Shr(self.c, self.hex_digit_idx * 4), 15)
                 ch == from_digit(hex_digit, 16)
             IN  IF ch.kind # "Some"
                 THEN Step2(self,
                          Panic("called Option::unwrap() on a None value", <<>>))
                 ELSE IF self.hex_digit_idx = 0
                 THEN Step2([self EXCEPT !.state = "RightBrace"], ch)
                 ELSE Step2([self EXCEPT !.hex_digit_idx = @ - 1], ch)
      [] self.state = "RightBrace" -> Step2(self, Some(Ch_RightBrace))
      [] self.state = "Done" -> Step2(self, None)

\* the digit masked with 0x1f instead of 0xf
EscapeUnicode_next_wide_mask(self) ==
    CASE self.state = "Backslash" ->
             Step2([self EXCEPT !.state = "Type"], Some(Ch_Backslash))
      [] self.state = "Type" ->
             Step2([self EXCEPT !.state = "LeftBrace"], Some(Ch_u))
      [] self.state = "LeftBrace" ->
             Step2([self EXCEPT !.state = "Value"], Some(Ch_LeftBrace))
      [] self.state = "Value" ->
             LET hex_digit == BitAnd(Shr(self.c, self.hex_digit_idx * 4), 31)
                 ch == from_digit(hex_digit, 16)
             IN  IF ch.kind # "Some"
                 THEN Step2(self,
                          Panic("called Option::unwrap() on a None value", <<>>))
                 ELSE IF self.hex_digit_idx = 0
                 THEN Step2([self EXCEPT !.state = "RightBrace"], ch)
                 ELSE Step2([self EXCEPT !.hex_digit_idx = @ - 1], ch)
      [] self.state = "RightBrace" ->
             Step2([self EXCEPT !.state = "Done"], Some(Ch_RightBrace))
      [] self.state = "Done" -> Step2(self, None)

EscapeUnicode_next(self) ==
    CASE self.state = "Backslash" ->
             Step2([self EXCEPT !.state = "Type"], Some(Ch_Backslash))
      [] self.state = "Type" ->
             Step2([self EXCEPT !.state = "LeftBrace"], Some(Ch_u))
      [] self.state = "LeftBrace" ->
             Step2([self EXCEPT !.state = "Value"], Some(Ch_LeftBrace))
      [] self.state = "Value" ->
             LET hex_digit == BitAnd(Shr(self.c, self.hex_digit_idx * 4), 15)
                 ch == from_digit(hex_digit, 16)
             IN  IF ch.kind # "Some"
                 THEN Step2(self,
                          Panic("called Option::unwrap() on a None value", <<>>))
                 ELSE IF self.hex_digit_idx = 0
                 THEN Step2([self EXCEPT !.state = "RightBrace"], ch)
                 ELSE Step2([self EXCEPT !.hex_digit_idx = @ - 1], ch)
      [] self.state = "RightBrace" ->
             Step2([self EXCEPT !.state = "Done"], Some(Ch_RightBrace))
      [] self.state = "Done" -> Step2(self, None)

\* usize, and the pair size_hint returns
Usize(n) == [kind |-> "Usize", val |-> n]

SizeHint(lower, upper) == [kind |-> "SizeHint", lower |-> lower, upper |-> upper]

\* the states counted from Value = 1: one less than is left from Value on
EscapeUnicode_len_shifted(self) ==
    self.hex_digit_idx
        + (CASE self.state = "Done" -> 0
             [] self.state = "RightBrace" -> 1
             [] self.state = "Value" -> 1
             [] self.state = "LeftBrace" -> 2
             [] self.state = "Type" -> 3
             [] self.state = "Backslash" -> 4)

\* ExactSizeIterator::len of EscapeUnicode
EscapeUnicode_len(self) ==
    self.hex_digit_idx
        + (CASE self.state = "Done" -> 0
             [] self.state = "RightBrace" -> 1
             [] self.state = "Value" -> 2
             [] self.state = "LeftBrace" -> 3
             [] self.state = "Type" -> 4
             [] self.state = "Backslash" -> 5)

EscapeUnicode_size_hint(self) ==
    LET n == EscapeUnicode_len(self)
    IN  SizeHint(n, Some(n))

EscapeUnicode_count(self) == EscapeUnicode_len(self)

\* the Done arm left out of the match
EscapeUnicode_last_no_done(self) == Some(Ch_RightBrace)

EscapeUnicode_last(self) ==
    IF self.state = "Done" THEN None ELSE Some(Ch_RightBrace)

(***************************************************************************)
(* The default escape iterator.                                            *)
(***************************************************************************)
\* EscapeDefaultState
DoneState == [tag |-> "Done"]

CharState(ch) == [tag |-> "Char", c |-> ch]

BackslashState(ch) == [tag |-> "Backslash", c |-> ch]

UnicodeState(it) == [tag |-> "Unicode", iter |-> it]

EscapeDefaultOf(st) == [kind |-> "EscapeDefault", state |-> st]

\* the control chars kept as they are behind the backslash
escape_default_raw_ctrl(self) ==
    LET init_state ==
            IF self \in {Ch_Tab, Ch_CR, Ch_LF} THEN BackslashState(self)
            ELSE IF self \in {Ch_Backslash, Ch_SingleQuote, Ch_DoubleQuote}
            THEN BackslashState(self)
            ELSE IF self \in Ch_Space..Ch_Tilde THEN CharState(self)
            ELSE UnicodeState(escape_unicode(self))
    IN  EscapeDefaultOf(init_state)

\* the arm of '\r' copied from that of '\n' and left as it was
escape_default_cr_as_lf(self) ==
    LET init_state ==
            IF self = Ch_Tab THEN BackslashState(Ch_t)
            ELSE IF self = Ch_CR THEN BackslashState(Ch_n)
            ELSE IF self = Ch_LF THEN BackslashState(Ch_n)
            ELSE IF self \in {Ch_Backslash, Ch_SingleQuote, Ch_DoubleQuote}
            THEN BackslashState(self)
            ELSE IF self \in Ch_Space..Ch_Tilde THEN CharState(self)
            ELSE UnicodeState(escape_unicode(self))
    IN  EscapeDefaultOf(init_state)

\* the printable range taken one char too far: '\x20' ... '\x7f'
escape_default_del(self) ==
    LET init_state ==
            IF self = Ch_Tab THEN BackslashState(Ch_t)
            ELSE IF self = Ch_CR THEN BackslashState(Ch_r)
            ELSE IF self = Ch_LF THEN BackslashState(Ch_n)
            ELSE IF self \in {Ch_Backslash, Ch_SingleQuote, Ch_DoubleQuote}
            THEN BackslashState(self)
            ELSE IF self \in Ch_Space..(Ch_Tilde + 1) THEN CharState(self)
            ELSE UnicodeState(escape_unicode(self))
    IN  EscapeDefaultOf(init_state)

escape_default(self) ==
    LET init_state ==
            IF self = Ch_Tab THEN BackslashState(Ch_t)
            ELSE IF self = Ch_CR THEN BackslashState(Ch_r)
            ELSE IF self = Ch_LF THEN BackslashState(Ch_n)
            ELSE IF self \in {Ch_Backslash, Ch_SingleQuote, Ch_DoubleQuote}
            THEN BackslashState(self)
            ELSE IF self \in Ch_Space..Ch_Tilde THEN CharState(self)
            ELSE UnicodeState(escape_unicode(self))
    IN  EscapeDefaultOf(init_state)

EscapeDefault_next(self) ==
    CASE self.state.tag = "Backslash" ->
             Step2(EscapeDefaultOf(CharState(self.state.c)), Some(Ch_Backslash))
      [] self.state.tag = "Char" ->
             Step2(EscapeDefaultOf(DoneState), Some(self.state.c))
      [] self.state.tag = "Done" -> Step2(self, None)
      [] self.state.tag = "Unicode" ->
             LET r == EscapeUnicode_next(self.state.iter)
             IN  Step2(EscapeDefaultOf(UnicodeState(r.iter)), r.ret)

\* the two counts of the literal states exchanged
EscapeDefault_len_swapped(self) ==
    CASE self.state.tag = "Done" -> 0
      [] self.state.tag = "Char" -> 2
      [] self.state.tag = "Backslash" -> 1
      [] self.state.tag = "Unicode" -> EscapeUnicode_len(self.state.iter)

EscapeDefault_len(self) ==
    CASE self.state.tag = "Done" -> 0
      [] self.state.tag = "Char" -> 1
      [] self.state.tag = "Backslash" -> 2
      [] self.state.tag = "Unicode" -> EscapeUnicode_len(self.state.iter)

EscapeDefault_size_hint(self) ==
    LET n == EscapeDefault_len(self)
    IN  SizeHint(n, Some(n))

EscapeDefault_count(self) == EscapeDefault_len(self)

\* Backslash(c) answered with the char next() would yield first
EscapeDefault_last_first(self) ==
    CASE self.state.tag = "Unicode" -> EscapeUnicode_last(self.state.iter)
      [] self.state.tag = "Done" -> None
      [] self.state.tag = "Backslash" -> Some(Ch_Backslash)
      [] self.state.tag = "Char" -> Some(self.state.c)

EscapeDefault_last(self) ==
    CASE self.state.tag = "Unicode" -> EscapeUnicode_last(self.state.iter)
      [] self.state.tag = "Done" -> None
      [] self.state.tag \in {"Backslash", "Char"} -> Some(self.state.c)

(***************************************************************************)
(* The debug escape iterator: EscapeDebug(EscapeDefault).                  *)
(***************************************************************************)
EscapeDebugOf(inner) == [kind |-> "EscapeDebug", inner |-> inner]

\* `is_printable`: what printable::is_printable answers for self
\* the is_printable arm put first in the match
escape_debug_oracle_first(self, is_printable) ==
    LET init_state ==
            IF is_printable THEN CharState(self)
            ELSE IF self = Ch_Tab THEN BackslashState(Ch_t)
            ELSE IF self = Ch_CR THEN BackslashState(Ch_r)
            ELSE IF self = Ch_LF THEN BackslashState(Ch_n)
            ELSE IF self \in {Ch_Backslash, Ch_SingleQuote, Ch_DoubleQuote}
            THEN BackslashState(self)
            ELSE UnicodeState(escape_unicode(self))
    IN  EscapeDebugOf(EscapeDefaultOf(init_state))

escape_debug(self, is_printable) ==
    LET init_state ==
            IF self = Ch_Tab THEN BackslashState(Ch_t)
            ELSE IF self = Ch_CR THEN BackslashState(Ch_r)
            ELSE IF self = Ch_LF THEN BackslashState(Ch_n)
            ELSE IF self \in {Ch_Backslash, Ch_SingleQuote, Ch_DoubleQuote}
            THEN BackslashState(self)
            ELSE IF is_printable THEN CharState(self)
            ELSE UnicodeState(escape_unicode(self))
    IN  EscapeDebugOf(EscapeDefaultOf(init_state))

EscapeDebug_next(self) ==
    LET r == EscapeDefault_next(self.inner)
    IN  Step2(EscapeDebugOf(r.iter), r.ret)

EscapeDebug_size_hint(self) == EscapeDefault_size_hint(self.inner)

(***************************************************************************)
(* The methods the iterators do not override: the default methods of       *)
(* Iterator and ExactSizeIterator, which go through next() and size_hint().*)
(***************************************************************************)
\* next() of the iterator's own type
Iter_next(it) ==
    CASE it.kind = "EscapeUnicode" -> EscapeUnicode_next(it)
      [] it.kind = "EscapeDefault" -> EscapeDefault_next(it)
      [] it.kind = "EscapeDebug" -> EscapeDebug_next(it)

\* Iterator::nth: for x in self { if n == 0 { return Some(x) } n -= 1 } None
RECURSIVE Iterator_nth(_, _)
Iterator_nth(it, n) ==
    LET r == Iter_next(it)
    IN  IF r.ret.kind # "Some" THEN r
        ELSE IF n = 0 THEN r
        ELSE Iterator_nth(r.iter, n - 1)

\* Iterator::last: let mut last = None; for x in self { last = Some(x) } last
RECURSIVE Iterator_last_from(_, _)
Iterator_last_from(it, last) ==
    LET r == Iter_next(it)
    IN  IF r.ret.kind = "Some" THEN Iterator_last_from(r.iter, r.ret)
        ELSE IF r.ret.kind = "None" THEN last
        ELSE r.ret

Iterator_last(it) == Iterator_last_from(it, None)

\* Iterator::count: one more for every item next() returns
RECURSIVE Iterator_count_from(_, _)
Iterator_count_from(it, n) ==
    LET r == Iter_next(it)
    IN  IF r.ret.kind = "Some" THEN Iterator_count_from(r.iter, n + 1)
        ELSE IF r.ret.kind = "None" THEN Usize(n)
        ELSE r.ret

Iterator_count(it) == Iterator_count_from(it, 0)

\* ExactSizeIterator::len:
\* let (lower, upper) = self.size_hint(); assert_eq!(upper, Some(lower)); lower
ExactSizeIterator_len(hint) ==
    IF hint.upper = Some(hint.lower) THEN Usize(hint.lower)
    ELSE Panic("assertion failed: (left == right)", <<hint.upper, hint.lower>>)

\* the Char arm without its test of n
EscapeDefault_nth_char_any(self, n) ==
    CASE self.state.tag = "Backslash" /\ n = 0 ->
             Step2(EscapeDefaultOf(CharState(self.state.c)), Some(Ch_Backslash))
      [] self.state.tag = "Backslash" /\ n = 1 ->
             Step2(EscapeDefaultOf(DoneState), Some(self.state.c))
      [] self.state.tag = "Backslash" /\ n > 1 ->
             Step2(EscapeDefaultOf(DoneState), None)
      [] self.state.tag = "Char" ->
             Step2(EscapeDefaultOf(DoneState), Some(self.state.c))
      [] self.state.tag = "Done" -> Step2(self, None)
      [] self.state.tag = "Unicode" ->
             LET r == Iterator_nth(self.state.iter, n)
             IN  Step2(EscapeDefaultOf(UnicodeState(r.iter)), r.ret)

EscapeDefault_nth(self, n) ==
    CASE self.state.tag = "Backslash" /\ n = 0 ->
             Step2(EscapeDefaultOf(CharState(self.state.c)), Some(Ch_Backslash))
      [] self.state.tag = "Backslash" /\ n = 1 ->
             Step2(EscapeDefaultOf(DoneState), Some(self.state.c))
      [] self.state.tag = "Backslash" /\ n > 1 ->
             Step2(EscapeDefaultOf(DoneState), None)
      [] self.state.tag = "Char" ->
             Step2(EscapeDefaultOf(DoneState),
                   IF n = 0 THEN Some(self.state.c) ELSE None)
      [] self.state.tag = "Done" -> Step2(self, None)
      [] self.state.tag = "Unicode" ->
             LET r == Iterator_nth(self.state.iter, n)
             IN  Step2(EscapeDefaultOf(UnicodeState(r.iter)), r.ret)

(***************************************************************************)
(* The method each type of iterator runs for a call.                       *)
(***************************************************************************)
Iter_nth(it, n) ==
    CASE it.kind = "EscapeUnicode" -> Iterator_nth(it, n)
      [] it.kind = "EscapeDefault" -> EscapeDefault_nth(it, n)
      [] it.kind = "EscapeDebug" -> Iterator_nth(it, n)

Iter_size_hint(it) ==
    CASE it.kind = "EscapeUnicode" -> EscapeUnicode_size_hint(it)
      [] it.kind = "EscapeDefault" -> EscapeDefault_size_hint(it)
      [] it.kind = "EscapeDebug" -> EscapeDebug_size_hint(it)

Iter_len(it) ==
    CASE it.kind = "EscapeUnicode" -> Usize(EscapeUnicode_len(it))
      [] it.kind = "EscapeDefault" -> Usize(EscapeDefault_len(it))
      [] it.kind = "EscapeDebug" -> ExactSizeIterator_len(EscapeDebug_size_hint(it))

Iter_count(it) ==
    CASE it.kind = "EscapeUnicode" -> Usize(EscapeUnicode_count(it))
      [] it.kind = "EscapeDefault" -> Usize(EscapeDefault_count(it))
      [] it.kind = "EscapeDebug" -> Iterator_count(it)

Iter_last(it) ==
    CASE it.kind = "EscapeUnicode" -> EscapeUnicode_last(it)
      [] it.kind = "EscapeDefault" -> EscapeDefault_last(it)
      [] it.kind = "EscapeDebug" -> Iterator_last(it)

\* a Clone written by hand that escapes the char again from its beginning
Iter_clone_restart(it) ==
    IF it.kind = "EscapeUnicode" THEN escape_unicode(it.c) ELSE it

\* #[derive(Clone)]: a copy of every field
Iter_clone(it) == it

(***************************************************************************)
(* The calling program.                                                    *)
(***************************************************************************)
Init ==
    /\ c \in Chars
    /\ op = "start"
    /\ radix = 0
    /\ dst = <<>>
    /\ ret = NoRet
    /\ iter = NoIter
    /\ out = <<>>
    /\ oracle = "unasked"
    /\ copy = NoIter
    /\ arg = 0

\* the caller's buffer: n units, each holding a value of its own
NewBuffer ==
    /\ op = "start"
    /\ \E n \in 0..MaxCap, fill \in {0, 170} :
        dst' = [i \in 1..n |-> fill + i]
    /\ op' = "new_buffer"
    /\ UNCHANGED <<c, radix, ret, iter, out, oracle, copy, arg>>

\* c.encode_utf8(&mut buf)
EncodeUtf8 ==
    /\ op = "new_buffer"
    /\ LET r == encode_utf8(c, dst)
       IN  /\ dst' = r.dst
           /\ ret' = Returned(r)
    /\ op' = "encode_utf8"
    /\ UNCHANGED <<c, radix, iter, out, oracle, copy, arg>>

\* c.encode_utf16(&mut buf)
EncodeUtf16 ==
    /\ op = "new_buffer"
    /\ \E overflow_checks \in BOOLEAN :
        LET r == encode_utf16(c, dst, overflow_checks)
        IN  /\ dst' = r.dst
            /\ ret' = Returned(r)
    /\ op' = "encode_utf16"
    /\ UNCHANGED <<c, radix, iter, out, oracle, copy, arg>>

NextEncode == NewBuffer \/ EncodeUtf8 \/ EncodeUtf16

SpecEncode == Init /\ [][NextEncode]_vars

\* c.to_digit(r)
ToDigit ==
    /\ op = "start"
    /\ \E r \in 0..MaxRadix :
        /\ radix' = r
        /\ ret' = to_digit(c, r)
    /\ op' = "to_digit"
    /\ UNCHANGED <<c, dst, iter, out, oracle, copy, arg>>

\* c.is_digit(r)
IsDigit ==
    /\ op = "start"
    /\ \E r \in 0..MaxRadix :
        /\ radix' = r
        /\ ret' = is_digit(c, r)
    /\ op' = "is_digit"
    /\ UNCHANGED <<c, dst, iter, out, oracle, copy, arg>>

\* char::from_digit(c.to_digit(r).unwrap(), r)
FromDigit ==
    /\ op = "to_digit"
    /\ ret.kind = "Some"
    /\ ret' = from_digit(ret.val, radix)
    /\ op' = "from_digit"
    /\ UNCHANGED <<c, radix, dst, iter, out, oracle, copy, arg>>

NextDigit == ToDigit \/ IsDigit \/ FromDigit

SpecDigit == Init /\ [][NextDigit]_vars

\* c.escape_unicode()
EscapeUnicode ==
    /\ op = "start"
    /\ iter' = escape_unicode(c)
    /\ op' = "escape_unicode"
    /\ UNCHANGED <<c, radix, dst, ret, out, oracle, copy, arg>>

\* iter.next() on the unicode escape
EscapeUnicodeNext ==
    /\ iter.kind = "EscapeUnicode"
    /\ LET r == EscapeUnicode_next(iter)
       IN  /\ iter' = r.iter
           /\ ret' = r.ret
           /\ out' = IF r.ret.kind = "Some" THEN Append(out, r.ret.val) ELSE out
    /\ op' = "next"
    /\ UNCHANGED <<c, radix, dst, oracle, copy, arg>>

\* c.escape_default()
EscapeDefault ==
    /\ op = "start"
    /\ iter' = escape_default(c)
    /\ op' = "escape_default"
    /\ UNCHANGED <<c, radix, dst, ret, out, oracle, copy, arg>>

\* c.escape_debug(), with either answer of is_printable(c)
EscapeDebug ==
    /\ op = "start"
    /\ \E is_printable \in BOOLEAN :
        /\ iter' = escape_debug(c, is_printable)
        /\ oracle' = IF is_printable THEN "printable" ELSE "unprintable"
    /\ op' = "escape_debug"
    /\ UNCHANGED <<c, radix, dst, ret, out, copy, arg>>

\* iter.next() on the default escape
EscapeDefaultNext ==
    /\ iter.kind = "EscapeDefault"
    /\ LET r == EscapeDefault_next(iter)
       IN  /\ iter' = r.iter
           /\ ret' = r.ret
           /\ out' = IF r.ret.kind = "Some" THEN Append(out, r.ret.val) ELSE out
    /\ op' = "next"
    /\ UNCHANGED <<c, radix, dst, oracle, copy, arg>>

\* iter.next() on the debug escape
EscapeDebugNext ==
    /\ iter.kind = "EscapeDebug"
    /\ LET r == EscapeDebug_next(iter)
       IN  /\ iter' = r.iter
           /\ ret' = r.ret
           /\ out' = IF r.ret.kind = "Some" THEN Append(out, r.ret.val) ELSE out
    /\ op' = "next"
    /\ UNCHANGED <<c, radix, dst, oracle, copy, arg>>

NextEscape ==
    \/ EscapeUnicode
    \/ EscapeUnicodeNext
    \/ EscapeDefault
    \/ EscapeDefaultNext
    \/ EscapeDebug
    \/ EscapeDebugNext

\* the caller collects what next() yields
SpecEscape == Init /\ [][NextEscape]_vars

IsIter(it) == it.kind \in {"EscapeUnicode", "EscapeDefault", "EscapeDebug"}

\* iter.next(), the char not collected
IterNext ==
    /\ IsIter(iter)
    /\ LET r == Iter_next(iter)
       IN  /\ iter' = r.iter
           /\ ret' = r.ret
    /\ op' = "next"
    /\ UNCHANGED <<c, radix, dst, out, oracle, copy>>
    /\ arg' = 0

\* iter.nth(n)
IterNth ==
    /\ IsIter(iter)
    /\ \E n \in 0..MaxNth :
        LET r == Iter_nth(iter, n)
        IN  /\ iter' = r.iter
            /\ ret' = r.ret
            /\ arg' = n
    /\ op' = "nth"
    /\ UNCHANGED <<c, radix, dst, out, oracle, copy>>

\* iter.len()
IterLen ==
    /\ IsIter(iter)
    /\ ret' = Iter_len(iter)
    /\ op' = "len"
    /\ UNCHANGED <<c, radix, dst, iter, out, oracle, copy>>
    /\ arg' = 0

\* iter.size_hint()
IterSizeHint ==
    /\ IsIter(iter)
    /\ ret' = Iter_size_hint(iter)
    /\ op' = "size_hint"
    /\ UNCHANGED <<c, radix, dst, iter, out, oracle, copy>>
    /\ arg' = 0

\* what is left of an iterator a method took by value
Moved(it) == [kind |-> "Moved", from |-> it]

\* iter.count(), which takes the iterator
IterCount ==
    /\ IsIter(iter)
    /\ ret' = Iter_count(iter)
    /\ iter' = Moved(iter)
    /\ op' = "count"
    /\ UNCHANGED <<c, radix, dst, out, oracle, copy>>
    /\ arg' = 0

\* iter.last(), which takes the iterator
IterLast ==
    /\ IsIter(iter)
    /\ ret' = Iter_last(iter)
    /\ iter' = Moved(iter)
    /\ op' = "last"
    /\ UNCHANGED <<c, radix, dst, out, oracle, copy>>
    /\ arg' = 0

NextIter ==
    \/ EscapeUnicode
    \/ EscapeDefault
    \/ EscapeDebug
    \/ IterNext
    \/ IterNth
    \/ IterLen
    \/ IterSizeHint
    \/ IterCount
    \/ IterLast

\* the chars the iterators' methods are called on in any order
IterChars ==
    {v \in Chars :
        \/ v <= IterLowMax
        \/ v \in Near({16 ^ k : k \in 2..5}) \cup Near({55296, 57344, 128512, 1114110})}

InitIter == Init /\ c \in IterChars

\* the caller calls the methods of the iterator in any order
SpecIter == InitIter /\ [][NextIter]_vars

\* a caller that goes on calling next(), as a for loop over the iterator does
SpecEscapeLive == SpecEscape /\ WF_vars(NextEscape)

(***************************************************************************)
(* Display, on a formatter that takes every char: for c in self.clone()    *)
(* { f.write_char(c)?; } Ok(()).                                           *)
(***************************************************************************)
RECURSIVE Fmt_loop(_, _)
Fmt_loop(it, f) ==
    LET r == Iter_next(it)
    IN  IF r.ret.kind = "Some" THEN Fmt_loop(r.iter, Append(f, r.ret.val)) ELSE f

EscapeUnicode_fmt(self, f) == Fmt_loop(Iter_clone(self), f)

EscapeDefault_fmt(self, f) == Fmt_loop(Iter_clone(self), f)

EscapeDebug_fmt(self, f) == EscapeDefault_fmt(self.inner, f)

Iter_fmt(it, f) ==
    CASE it.kind = "EscapeUnicode" -> EscapeUnicode_fmt(it, f)
      [] it.kind = "EscapeDefault" -> EscapeDefault_fmt(it, f)
      [] it.kind = "EscapeDebug" -> EscapeDebug_fmt(it, f)

\* what a formatter holds after a fmt call that returned Ok(())
Formatted(f) == [kind |-> "Formatted", written |-> f]

(***************************************************************************)
(* A caller that clones the iterator once and then advances the iterator   *)
(* and its clone in any order, and formats the iterator.                   *)
(***************************************************************************)
\* a clone, with the iterator as it was when the clone was made
CloneOf(it, original) == [kind |-> "Clone", iter |-> it, of |-> original]

\* let copy = iter.clone()
Clone ==
    /\ IsIter(iter)
    /\ copy = NoIter
    /\ copy' = CloneOf(Iter_clone(iter), iter)
    /\ op' = "clone"
    /\ ret' = NoRet
    /\ arg' = 0
    /\ UNCHANGED <<c, radix, dst, iter, out, oracle>>

\* copy.next(); out collects what the clone yields
CopyNext ==
    /\ copy.kind = "Clone"
    /\ LET r == Iter_next(copy.iter)
       IN  /\ copy' = [copy EXCEPT !.iter = r.iter]
           /\ ret' = r.ret
           /\ out' = IF r.ret.kind = "Some" THEN Append(out, r.ret.val) ELSE out
    /\ op' = "copy.next"
    /\ arg' = 0
    /\ UNCHANGED <<c, radix, dst, iter, oracle>>

\* write!(f, "{}", iter) on an empty formatter
Display ==
    /\ IsIter(iter)
    /\ ret' = Formatted(Iter_fmt(iter, <<>>))
    /\ op' = "fmt"
    /\ arg' = 0
    /\ UNCHANGED <<c, radix, dst, iter, out, oracle, copy>>

NextClone ==
    \/ EscapeUnicode
    \/ EscapeDefault
    \/ EscapeDebug
    \/ IterNext
    \/ Clone
    \/ CopyNext
    \/ Display

SpecClone == InitIter /\ [][NextClone]_vars

Next == NextEncode \/ NextDigit \/ NextEscape \/ NextIter \/ NextClone

Spec == Init /\ [][Next]_vars

(***************************************************************************)
(* Reference decoders (RFC 3629, RFC 2781), written on the integers: the   *)
(* value a conforming decoder reads from the units, or -1 when the units   *)
(* are not a well-formed shortest-form encoding of one scalar value.       *)
(***************************************************************************)
IsCont(b) == b \in 128..191

Utf8Decode(b) ==
    LET v == CASE Len(b) = 1 /\ b[1] \in 0..127 -> b[1]
               [] Len(b) = 2 /\ b[1] \in 192..223 /\ IsCont(b[2]) ->
                      (b[1] - 192) * 64 + (b[2] - 128)
               [] Len(b) = 3 /\ b[1] \in 224..239 /\ IsCont(b[2]) /\ IsCont(b[3]) ->
                      (b[1] - 224) * 4096 + (b[2] - 128) * 64 + (b[3] - 128)
               [] Len(b) = 4 /\ b[1] \in 240..247 /\ IsCont(b[2]) /\ IsCont(b[3])
                             /\ IsCont(b[4]) ->
                      (b[1] - 240) * 262144 + (b[2] - 128) * 4096
                          + (b[3] - 128) * 64 + (b[4] - 128)
               [] OTHER -> -1
        least == CASE Len(b) = 2 -> 128
                   [] Len(b) = 3 -> 2048
                   [] Len(b) = 4 -> 65536
                   [] OTHER -> 0
    IN  IF v >= least /\ IsScalar(v) THEN v ELSE -1

Utf16Decode(u) ==
    CASE Len(u) = 1 /\ u[1] \in 0..65535 /\ ~(u[1] \in 55296..57343) -> u[1]
      [] Len(u) = 2 /\ u[1] \in 55296..56319 /\ u[2] \in 56320..57343 ->
             65536 + (u[1] - 55296) * 1024 + (u[2] - 56320)
      [] OTHER -> -1

(***************************************************************************)
(* Claims about the encoders, checked under SpecEncode.                    *)
(***************************************************************************)
\* C1: encode_utf8(c, buffer) fails if and only if the buffer's capacity is
\* below len_utf8(c); when it succeeds the returned view has exactly
\* len_utf8(c) bytes, whatever the capacity.
C1_EncodeUtf8Length ==
    op = "encode_utf8" =>
        /\ ret.kind \in {"Ok", "Panic"}
        /\ (ret.kind = "Panic") <=> (Len(dst) < len_utf8(c))
        /\ ret.kind = "Ok" => Len(ret.view) = len_utf8(c)

\* a 2-byte char and a buffer of one byte: the 1-byte test fails on the
\* char, the 2-byte test on the capacity, and the chain ends in the failure
C1_Witness ==
    /\ op = "encode_utf8"
    /\ c \in 128..2047
    /\ Len(dst) = 1
    /\ ret.kind = "Panic"

\* C2: encode_utf16(c, buffer) fails if and only if the buffer's capacity is
\* below len_utf16(c); when it succeeds the returned view has exactly
\* len_utf16(c) units: 1 for c <= 0xFFFF, 2 otherwise.
C2_EncodeUtf16Length ==
    op = "encode_utf16" =>
        /\ ret.kind \in {"Ok", "Panic"}
        /\ (ret.kind = "Panic") <=> (Len(dst) < len_utf16(c))
        /\ ret.kind = "Ok" => /\ Len(ret.view) = len_utf16(c)
                              /\ Len(ret.view) = IF c <= 65535 THEN 1 ELSE 2

\* U+FFFF in a buffer of two units is returned as one unit
C2_Witness ==
    /\ op = "encode_utf16"
    /\ c = 65535
    /\ Len(dst) = 2
    /\ ret.kind = "Ok"
    /\ Len(ret.view) = 1

\* C3: the bytes encode_utf8 returns are the standard UTF-8 encoding of c:
\* each is a byte, the leading byte carries the tag of the 1/2/3/4-byte form,
\* the others are continuation bytes, and a reference decoder reads c back.
C3_EncodeUtf8Standard ==
    (op = "encode_utf8" /\ ret.kind = "Ok") =>
        /\ \A i \in 1..Len(ret.view) : ret.view[i] \in 0..255
        /\ ret.view[1] \in (CASE Len(ret.view) = 1 -> 0..127
                              [] Len(ret.view) = 2 -> 192..223
                              [] Len(ret.view) = 3 -> 224..239
                              [] OTHER -> 240..247)
        /\ \A i \in 2..Len(ret.view) : IsCont(ret.view[i])
        /\ Utf8Decode(ret.view) = c

\* U+10FFFF is returned as F4 8F BF BF
C3_Witness ==
    /\ op = "encode_utf8"
    /\ c = 1114111
    /\ ret.kind = "Ok"
    /\ ret.view = <<244, 143, 191, 191>>

\* C4: encode_utf16 returns the single unit c when c <= 0xFFFF, and otherwise
\* the pair 0xD800 + ((c - 0x10000) >> 10), 0xDC00 + ((c - 0x10000) & 0x3FF),
\* a high then a low surrogate, which a reference decoder reads back as c.
C4_EncodeUtf16Standard ==
    (op = "encode_utf16" /\ ret.kind = "Ok") =>
        /\ c <= 65535 => ret.view = <<c>>
        /\ c > 65535 =>
            /\ ret.view = <<55296 + ((c - 65536) \div 1024),
                            56320 + ((c - 65536) % 1024)>>
            /\ ret.view[1] \in 55296..56319
            /\ ret.view[2] \in 56320..57343
        /\ Utf16Decode(ret.view) = c

\* U+10FFFF is returned as DBFF DFFF
C4_Witness ==
    /\ op = "encode_utf16"
    /\ c = 1114111
    /\ ret.kind = "Ok"
    /\ ret.view = <<56319, 57343>>

\* C5: a failing encode_utf8 / encode_utf16 reports required = len_utf8(c)
\* (resp. len_utf16(c)) of the char it was called on, that char, and
\* available = the buffer's capacity; no other failure is raised.
C5_BufferTooSmall ==
    /\ (op = "encode_utf8" /\ ret.kind # "Ok") =>
           ret = Panic("encode_utf8", <<len_utf8(c), c, Len(dst)>>)
    /\ (op = "encode_utf16" /\ ret.kind # "Ok") =>
           ret = Panic("encode_utf16", <<len_utf16(c), c, Len(dst)>>)

\* a supplementary-plane char and a buffer of one unit: need 2, has 1
C5_Witness ==
    /\ op = "encode_utf16"
    /\ c > 65535
    /\ ret = Panic("encode_utf16", <<2, c, 1>>)

\* C6: a successful encode changes only the positions below the returned
\* length; a failing one leaves the whole buffer as it was.
C6_EncodersFrame ==
    [][(op = "new_buffer" /\ op' \in {"encode_utf8", "encode_utf16"}) =>
          /\ Len(dst') = Len(dst)
          /\ ret'.kind = "Ok" =>
                \A i \in 1..Len(dst) : i > Len(ret'.view) => dst'[i] = dst[i]
          /\ ret'.kind # "Ok" => dst' = dst]_vars

\* a 2-byte char written into a buffer of five bytes: the last three are kept
C6_Witness ==
    /\ op = "encode_utf8"
    /\ ret.kind = "Ok"
    /\ Len(ret.view) = 2
    /\ Len(dst) = 5
    /\ SubSeq(dst, 3, 5) = <<173, 174, 175>>

(***************************************************************************)
(* Claims about the digit conversions, checked under SpecDigit.            *)
(***************************************************************************)
\* the digits in order of value, as from_digit spells them: 0-9 then a-z
Alphabet == <<48, 49, 50, 51, 52, 53, 54, 55, 56, 57,
              97, 98, 99, 100, 101, 102, 103, 104, 105, 106, 107, 108, 109,
              110, 111, 112, 113, 114, 115, 116, 117, 118, 119, 120, 121, 122>>

\* the value of char v as a digit: its place in the alphabet, in either
\* case for a letter
IsDigitValue(v, d) ==
    /\ d \in 0..35
    /\ \/ Alphabet[d + 1] = v
       \/ d >= 10 /\ Alphabet[d + 1] - 32 = v

\* C7: for a radix <= 36, to_digit(c, r) returns d exactly when c is the
\* digit or the letter (of either case) of value d and d < r, and None in
\* every other case; is_digit(c, r) is true iff to_digit(c, r) is a digit.
C7_ToDigit ==
    /\ (op = "to_digit" /\ radix <= 36) =>
          /\ ret.kind \in {"Some", "None"}
          /\ \A d \in 0..35 :
                (ret = Some(d)) <=> (IsDigitValue(c, d) /\ d < radix)
          /\ ret.kind = "Some" => ret.val \in 0..(radix - 1)
    /\ (op = "is_digit" /\ radix <= 36) =>
          /\ ret.kind = "Bool"
          /\ ret.val <=> (\E d \in 0..35 : IsDigitValue(c, d) /\ d < radix)
          /\ ret.val <=> (to_digit(c, radix).kind = "Some")

\* 'c' is no digit in radix 10 and the digit 12 in radix 13; 'C' likewise
C7_Witness ==
    /\ op = "to_digit"
    /\ c = 67
    /\ radix = 13
    /\ ret = Some(12)

\* C8: for a radix > 36, to_digit and is_digit panic whatever the char.
C8_InvalidRadix ==
    (op \in {"to_digit", "is_digit"} /\ radix > 36) => ret.kind = "Panic"

\* a char that is no digit in any radix, and radix 37
C8_Witness ==
    /\ op = "is_digit"
    /\ c = 33
    /\ radix = 37
    /\ ret.kind = "Panic"

\* C9 as stated: whenever to_digit(c, r) is a digit d, from_digit(d, r)
\* returns c.
C9_RoundTripAsStated ==
    op = "from_digit" => ret = Some(c)

\* C9, amended: whenever to_digit(c, r) is a digit d, from_digit(d, r)
\* returns c if c is a decimal digit or a lower-case letter, and the
\* lower-case letter of c if c is an upper-case letter.
C9_RoundTrip ==
    op = "from_digit" =>
        ret = Some(IF c \in 65..90 THEN c + 32 ELSE c)

\* 'A' in radix 16 is the digit 10, which from_digit spells 'a'
C9_Witness ==
    /\ op = "from_digit"
    /\ c = 65
    /\ radix = 16
    /\ ret = Some(97)

(***************************************************************************)
(* Claims about the escape iterators, checked under SpecEscape.            *)
(***************************************************************************)
\* the hexadecimal numeral of v, in lower case, without leading zeros
RECURSIVE HexNumeral(_)
HexNumeral(v) ==
    IF v < 16 THEN <<Alphabet[v + 1]>>
    ELSE Append(HexNumeral(v \div 16), Alphabet[(v % 16) + 1])

\* \u{ numeral }
UnicodeEscapeOf(v) == <<92, 117, 123>> \o HexNumeral(v) \o <<125>>

IsPrefix(s, t) == Len(s) <= Len(t) /\ SubSeq(t, 1, Len(s)) = s

\* C10: consuming escape_unicode(c) with next() yields backslash, 'u', '{',
\* the hexadecimal digits of c in lower case, most significant first,
\* without a leading zero and at least one, then '}', then nothing: the
\* number of hex digits of c, plus 4, chars.
C10_EscapeUnicodeSequence ==
    iter.kind = "EscapeUnicode" =>
        /\ IsPrefix(out, UnicodeEscapeOf(c))
        /\ (op = "next" /\ ret.kind # "Some") =>
              /\ ret = None
              /\ out = UnicodeEscapeOf(c)
              /\ Len(out) = Len(HexNumeral(c)) + 4
              /\ c # 0 => out[4] # 48

\* U+1F600 consumed to the end: \u{1f600}
C10_Witness ==
    /\ iter.kind = "EscapeUnicode"
    /\ c = 128512
    /\ op = "next"
    /\ ret = None
    /\ out = <<92, 117, 123, 49, 102, 54, 48, 48, 125>>

\* C11 as stated: for U+0000 the unicode escape yields exactly \u{0}, and
\* that sequence is 6 chars long (the remaining length is 6 at first).
C11_ZeroAsStated ==
    (iter.kind = "EscapeUnicode" /\ c = 0) =>
        /\ op = "escape_unicode" => EscapeUnicode_len(iter) = 6
        /\ (op = "next" /\ ret.kind # "Some") =>
              /\ out = <<92, 117, 123, 48, 125>>
              /\ Len(out) = 6

\* C11, amended: for U+0000 the unicode escape yields exactly \u{0}, and
\* that sequence is 5 chars long (the remaining length is 5 at first).
C11_Zero ==
    (iter.kind = "EscapeUnicode" /\ c = 0) =>
        /\ op = "escape_unicode" => EscapeUnicode_len(iter) = 5
        /\ (op = "next" /\ ret.kind # "Some") =>
              /\ ret = None
              /\ out = <<92, 117, 123, 48, 125>>
              /\ Len(out) = 5

\* U+0000 consumed to the end
C11_Witness ==
    /\ iter.kind = "EscapeUnicode"
    /\ c = 0
    /\ op = "next"
    /\ ret = None
    /\ out = <<92, 117, 123, 48, 125>>

\* C12: in every state of the unicode escape reached by next() calls, len()
\* is hex_digit_idx plus 0..5 for Done..Backslash and is the number of chars
\* next() will still yield; it is 0 exactly when the iterator is exhausted,
\* and every next() that yields a char lowers it by exactly 1.
C12_EscapeUnicodeLen ==
    /\ [](iter.kind = "EscapeUnicode" =>
            /\ EscapeUnicode_len(iter) = Len(UnicodeEscapeOf(c)) - Len(out)
            /\ EscapeUnicode_len(iter) =
                   iter.hex_digit_idx
                       + (CASE iter.state = "Done" -> 0
                            [] iter.state = "RightBrace" -> 1
                            [] iter.state = "Value" -> 2
                            [] iter.state = "LeftBrace" -> 3
                            [] iter.state = "Type" -> 4
                            [] OTHER -> 5)
            /\ (EscapeUnicode_len(iter) = 0) <=> (iter.state = "Done")
            /\ (EscapeUnicode_len(iter) = 0) <=>
                   (EscapeUnicode_next(iter).ret = None))
    /\ [][(iter.kind = "EscapeUnicode" /\ op' = "next" /\ ret'.kind = "Some") =>
             EscapeUnicode_len(iter') = EscapeUnicode_len(iter) - 1]_vars

\* U+1F600 after \u{1f: the digits 6, 0, 0 and the brace are left
C12_Witness ==
    /\ iter.kind = "EscapeUnicode"
    /\ c = 128512
    /\ out = <<92, 117, 123, 49, 102>>
    /\ iter.state = "Value"
    /\ iter.hex_digit_idx = 2
    /\ EscapeUnicode_len(iter) = 4

(***************************************************************************)
(* What an iterator has left, by calling next() until it yields nothing.   *)
(***************************************************************************)
RECURSIVE Rest(_)
Rest(it) ==
    LET r == Iter_next(it)
    IN  IF r.ret.kind = "Some" THEN <<r.ret.val>> \o Rest(r.iter) ELSE <<>>

\* the EscapeDefault an EscapeDefault or EscapeDebug iterator runs on
DefaultOf(it) == IF it.kind = "EscapeDebug" THEN it.inner ELSE it

\* the iterator is in its final state
Exhausted(it) ==
    CASE it.kind = "EscapeUnicode" -> it.state = "Done"
      [] it.kind \in {"EscapeDefault", "EscapeDebug"} ->
             \/ DefaultOf(it).state.tag = "Done"
             \/ /\ DefaultOf(it).state.tag = "Unicode"
                /\ DefaultOf(it).state.iter.state = "Done"
      [] OTHER -> FALSE

\* C13: in every state of an EscapeDefault or EscapeDebug iterator reached by
\* next() and nth(n) calls in any order, len() is the exact number of chars
\* left (2 in Backslash, 1 in Char, 0 in Done, the inner iterator's len()
\* when it delegates), size_hint() is (len, Some(len)) and count() is len.
C13_EscapeDefaultLen ==
    /\ iter.kind \in {"EscapeDefault", "EscapeDebug"} =>
          LET n == Len(Rest(iter))
              st == DefaultOf(iter).state
          IN  /\ Iter_len(iter) = Usize(n)
              /\ Iter_size_hint(iter) = SizeHint(n, Some(n))
              /\ Iter_count(iter) = Usize(n)
              /\ n = (CASE st.tag = "Backslash" -> 2
                        [] st.tag = "Char" -> 1
                        [] st.tag = "Done" -> 0
                        [] st.tag = "Unicode" -> EscapeUnicode_len(st.iter))
              /\ op = "len" => ret = Usize(n)
              /\ op = "size_hint" => ret = SizeHint(n, Some(n))
    /\ (op = "count" /\ iter.kind = "Moved"
            /\ iter.from.kind \in {"EscapeDefault", "EscapeDebug"}) =>
          ret = Usize(Len(Rest(iter.from)))

\* tab after nth(0) has taken the backslash: one char is left
C13_Witness ==
    /\ c = 9
    /\ op = "nth"
    /\ arg = 0
    /\ ret = Some(92)
    /\ iter = EscapeDefaultOf(CharState(116))
    /\ Iter_len(iter) = Usize(1)

\* C14: once next() has returned nothing, every later next(), nth(n) and
\* last() of any of the three iterators returns nothing and len() stays 0;
\* an iterator that delegates stays in its Unicode state around the
\* exhausted inner iterator.
C14_Fused ==
    /\ []((IsIter(iter) /\ op = "next" /\ ret = None) =>
            /\ Exhausted(iter)
            /\ Iter_len(iter) = Usize(0))
    /\ [][Exhausted(iter) =>
            /\ op' \in {"next", "nth", "last"} => ret' = None
            /\ op' \in {"len", "count"} => ret' = Usize(0)
            /\ IsIter(iter') =>
                  /\ Exhausted(iter')
                  /\ Iter_len(iter') = Usize(0)
                  /\ iter'.kind = iter.kind
                  /\ iter.kind # "EscapeUnicode" =>
                        DefaultOf(iter').state.tag = DefaultOf(iter).state.tag]_vars

\* last() of a delegating iterator whose inner iterator is exhausted
C14_Witness ==
    /\ op = "last"
    /\ ret = None
    /\ iter.kind = "Moved"
    /\ iter.from.kind = "EscapeDefault"
    /\ iter.from.state.tag = "Unicode"
    /\ iter.from.state.iter.state = "Done"

\* the two-char escapes escape_default and escape_debug share
TwoCharEscapeOf(v) ==
    CASE v = 9 -> <<92, 116>>
      [] v = 13 -> <<92, 114>>
      [] v = 10 -> <<92, 110>>
      [] v \in {92, 39, 34} -> <<92, v>>

HasTwoCharEscape(v) == v \in {9, 13, 10, 92, 39, 34}

\* the sequence escape_default is to yield for the scalar value v
DefaultEscapeOf(v) ==
    IF HasTwoCharEscape(v) THEN TwoCharEscapeOf(v)
    ELSE IF v \in 32..126 THEN <<v>>
    ELSE UnicodeEscapeOf(v)

\* C15: escape_default yields, in order and then nothing: \t, \r, \n for
\* tab, carriage return and line feed; a backslash and the char itself for
\* backslash, single quote and double quote; the char alone for 0x20..0x7E;
\* and for every other char the sequence escape_unicode yields.
C15_EscapeDefaultSequence ==
    iter.kind = "EscapeDefault" =>
        /\ IsPrefix(out, DefaultEscapeOf(c))
        /\ op = "escape_default" => out = <<>>
        /\ (op = "next" /\ ret.kind = "Some") =>
              /\ out # <<>>
              /\ ret.val = out[Len(out)]
        /\ (op = "next" /\ ret.kind # "Some") =>
              /\ ret = None
              /\ out = DefaultEscapeOf(c)

\* a single quote consumed to the end: backslash, quote, nothing
C15_Witness ==
    /\ iter.kind = "EscapeDefault"
    /\ c = 39
    /\ op = "next"
    /\ ret = None
    /\ out = <<92, 39>>

\* the sequence escape_debug is to yield for v when is_printable answers p
DebugEscapeOf(v, p) ==
    IF HasTwoCharEscape(v) THEN TwoCharEscapeOf(v)
    ELSE IF p THEN <<v>>
    ELSE UnicodeEscapeOf(v)

\* C16: escape_debug yields the same two-char escapes as escape_default for
\* tab, carriage return, line feed, backslash and both quotes, whatever
\* is_printable says of them; any other char it yields alone when
\* is_printable holds of it, and as escape_unicode does when it does not.
C16_EscapeDebugSequence ==
    iter.kind = "EscapeDebug" =>
        /\ oracle \in {"printable", "unprintable"}
        /\ IsPrefix(out, DebugEscapeOf(c, oracle = "printable"))
        /\ op = "escape_debug" => out = <<>>
        /\ (op = "next" /\ ret.kind = "Some") =>
              /\ out # <<>>
              /\ ret.val = out[Len(out)]
        /\ (op = "next" /\ ret.kind # "Some") =>
              /\ ret = None
              /\ out = DebugEscapeOf(c, oracle = "printable")
        /\ HasTwoCharEscape(c) => DebugEscapeOf(c, TRUE) = DefaultEscapeOf(c)

\* a tab is_printable holds of, consumed to the end: still backslash, t
C16_Witness ==
    /\ iter.kind = "EscapeDebug"
    /\ oracle = "printable"
    /\ c = 9
    /\ op = "next"
    /\ ret = None
    /\ out = <<92, 116>>

\* the final char of a sequence of chars, nothing when it is empty
FinalOf(chars) == IF chars = <<>> THEN None ELSE Some(chars[Len(chars)])

\* C17: in every reachable state of an EscapeUnicode or EscapeDefault
\* iterator, last() returns the final char repeated next() calls would
\* yield and nothing when the iterator is exhausted; for a unicode escape
\* that is the closing brace in every state but Done.
C17_Last ==
    /\ iter.kind \in {"EscapeUnicode", "EscapeDefault"} =>
          /\ Iter_last(iter) = FinalOf(Rest(iter))
          /\ Exhausted(iter) <=> (Iter_last(iter) = None)
          /\ (iter.kind = "EscapeUnicode" /\ iter.state # "Done") =>
                Iter_last(iter) = Some(125)
          /\ (iter.kind = "EscapeDefault" /\ iter.state.tag = "Unicode"
                  /\ iter.state.iter.state # "Done") =>
                Iter_last(iter) = Some(125)
    /\ (op = "last" /\ iter.kind = "Moved"
            /\ iter.from.kind \in {"EscapeUnicode", "EscapeDefault"}) =>
          ret = FinalOf(Rest(iter.from))

\* last() of the untouched default escape of a line feed: n
C17_Witness ==
    /\ c = 10
    /\ op = "last"
    /\ iter.kind = "Moved"
    /\ iter.from = EscapeDefaultOf(BackslashState(110))
    /\ ret = Some(110)

\* the outcome of the k-th of k next() calls, and the iterator they leave
RECURSIVE NextTimes(_, _)
NextTimes(it, k) ==
    LET r == Iter_next(it)
    IN  IF k <= 1 THEN r ELSE NextTimes(r.iter, k - 1)

\* C18: nth(n) of an EscapeDefault iterator in any of its four shapes
\* returns what the n+1-th of n+1 next() calls returns and leaves the
\* iterator with the same chars left, and the same len(), as those calls.
C18_NthIsNexts ==
    [][(iter.kind = "EscapeDefault" /\ op' = "nth") =>
          LET r == NextTimes(iter, arg' + 1)
          IN  /\ ret' = r.ret
              /\ iter'.kind = "EscapeDefault"
              /\ Rest(iter') = Rest(r.iter)
              /\ Iter_len(iter') = Iter_len(r.iter)]_vars

\* nth(1) jumps over the only char of a plain letter and returns nothing
C18_Witness ==
    /\ c = 97
    /\ op = "nth"
    /\ arg = 1
    /\ ret = None
    /\ iter = EscapeDefaultOf(DoneState)

\* the unicode escape an iterator runs on, if it runs on one
HasHex(it) ==
    \/ it.kind = "EscapeUnicode"
    \/ /\ it.kind \in {"EscapeDefault", "EscapeDebug"}
       /\ DefaultOf(it).state.tag = "Unicode"

HexOf(it) == IF it.kind = "EscapeUnicode" THEN it ELSE DefaultOf(it).state.iter

\* C20: no call of next(), nth(n), last(), len() or count() on any of the
\* iterators fails in any reachable state; the digit taken in the Value
\* state is below 16, so that from_digit(digit, 16) is never None; len_utf8
\* and len_utf16 fail for no char.
C20_NoFailure ==
    /\ ret.kind # "Panic"
    /\ IsIter(iter) =>
          /\ Iter_next(iter).ret.kind \in {"Some", "None"}
          /\ \A n \in 0..MaxNth : Iter_nth(iter, n).ret.kind \in {"Some", "None"}
          /\ Iter_last(iter).kind \in {"Some", "None"}
          /\ Iter_len(iter).kind = "Usize"
          /\ Iter_count(iter).kind = "Usize"
    /\ (IsIter(iter) /\ HasHex(iter) /\ HexOf(iter).state = "Value") =>
          LET digit == BitAnd(Shr(HexOf(iter).c, HexOf(iter).hex_digit_idx * 4), 15)
          IN  /\ digit \in 0..15
              /\ from_digit(digit, 16).kind = "Some"
    /\ len_utf8(c) \in 1..4
    /\ len_utf16(c) \in 1..2

\* the digit f of U+10FFFF has just been yielded through an EscapeDebug
C20_Witness ==
    /\ c = 1114111
    /\ iter.kind = "EscapeDebug"
    /\ op = "next"
    /\ ret = Some(102)
    /\ iter.inner.state.tag = "Unicode"
    /\ iter.inner.state.iter.state = "Value"

C21_HexDigitIdxDecreases ==
    [][(HasHex(iter) /\ HasHex(iter')) =>
          LET old == HexOf(iter)
              new == HexOf(iter')
              Order == <<"Backslash", "Type", "LeftBrace", "Value", "RightBrace", "Done">>
              Rank(st) == CHOOSE i \in 1..6 : Order[i] = st
          IN  /\ new.hex_digit_idx <= old.hex_digit_idx
              /\ new.hex_digit_idx # old.hex_digit_idx =>
                    /\ old.state = "Value"
                    /\ new.state = "Value"
                    /\ old.hex_digit_idx > 0
                    /\ new.hex_digit_idx = old.hex_digit_idx - 1
                    /\ ret'.kind = "Some"
              /\ (old.state = "Value" /\ old.hex_digit_idx > 0) =>
                    /\ new.state = "Value"
                    /\ new.hex_digit_idx = old.hex_digit_idx - 1
              /\ (new.state = "RightBrace" /\ old.state # "RightBrace") =>
                    /\ old.state = "Value"
                    /\ old.hex_digit_idx = 0
              /\ (new.state = "Done" /\ old.state # "Done") =>
                    old.state = "RightBrace"
              /\ Rank(new.state) >= Rank(old.state)
              /\ Rank(new.state) <= Rank(old.state) + 1]_vars

\* U+1F600 after its last digit: the index went 4, 3, 2, 1, 0
C21_Witness ==
    /\ c = 128512
    /\ iter.kind = "EscapeUnicode"
    /\ iter.state = "RightBrace"
    /\ iter.hex_digit_idx = 0
    /\ op = "next"
    /\ ret = Some(48)
    /\ out = <<92, 117, 123, 49, 102, 54, 48, 48>>

\* C22: for every char each of escape_unicode, escape_default and
\* escape_debug is exhausted after finitely many next() calls that yield a
\* char, at most 10 of them (10 only for chars of six hex digits), and
\* next() returns nothing from then on.
C22_Terminates ==
    /\ [](IsIter(iter) =>
            /\ Len(out) <= 10
            /\ Len(out) = 10 => (c >= 1048576 /\ Exhausted(iter)))
    /\ <>(IsIter(iter) /\ op = "next" /\ ret = None)
    /\ [][(IsIter(iter) /\ op = "next" /\ ret = None) =>
             (ret' = None /\ out' = out /\ iter' = iter)]_vars

\* U+10FFFF through escape_default: ten chars and then nothing
C22_Witness ==
    /\ c = 1114111
    /\ iter.kind = "EscapeDefault"
    /\ op = "next"
    /\ ret = None
    /\ Len(out) = 10

\* C23: in every state of a unicode escape reachable from escape_unicode(c)
\* hex_digit_idx is in 0..5, and it is 0 in RightBrace and in Done, where
\* len() is 1 and 0; len() never exceeds 10.
C23_HexDigitIdxRange ==
    (IsIter(iter) /\ HasHex(iter)) =>
        LET hex == HexOf(iter)
        IN  /\ hex.hex_digit_idx \in 0..5
            /\ hex.state \in {"RightBrace", "Done"} => hex.hex_digit_idx = 0
            /\ hex.state = "RightBrace" => EscapeUnicode_len(hex) = 1
            /\ hex.state = "Done" => EscapeUnicode_len(hex) = 0
            /\ EscapeUnicode_len(hex) \in 0..10
            /\ Iter_len(iter) = Usize(EscapeUnicode_len(hex))

\* U+10FFFF untouched: index 5 and ten chars to come
C23_Witness ==
    /\ c = 1114111
    /\ op = "escape_unicode"
    /\ iter.kind = "EscapeUnicode"
    /\ iter.state = "Backslash"
    /\ iter.hex_digit_idx = 5
    /\ EscapeUnicode_len(iter) = 10

\* C24: encode_utf16 takes its surrogate branch only for c > 0xFFFF, so
\* that the subtraction of 0x10000 does not underflow in any build,
\* (c - 0x10000) >> 10 fits in 10 bits, and a 16-bit value is never
\* returned as two units whatever the capacity; 31 - leading_zeros(c | 1)
\* of escape_unicode does not underflow either.
C24_NoUnderflow ==
    /\ op = "new_buffer" =>
          encode_utf16(c, dst, TRUE) = encode_utf16(c, dst, FALSE)
    /\ op = "encode_utf16" =>
          /\ ret # Panic("attempt to subtract with overflow", <<>>)
          /\ ret.kind = "Panic" => ret.fn = "encode_utf16"
          /\ (ret.kind = "Ok" /\ Len(ret.view) = 2) =>
                /\ c > 65535
                /\ (c - 65536) \div 1024 \in 0..1023
                /\ ret.view[1] = 55296 + ((c - 65536) \div 1024)
          /\ c <= 65535 => (ret.kind = "Ok" => Len(ret.view) = 1)
          /\ (c <= 65535 /\ Len(dst) = 0) => ret.kind = "Panic"
    /\ leading_zeros(BitOr(c, 1)) \in 0..31
    /\ escape_unicode(c).hex_digit_idx = (31 - leading_zeros(BitOr(c, 1))) \div 4
    /\ escape_unicode(c).hex_digit_idx >= 0

\* U+10000, where the subtraction leaves exactly 0
C24_Witness ==
    /\ op = "encode_utf16"
    /\ c = 65536
    /\ Len(dst) = 2
    /\ ret.kind = "Ok"
    /\ ret.view = <<55296, 56320>>

\* the lower-case hex digits 0-9 and a-f
HexDigitChars == (48..57) \cup (97..102)

\* C25: every char escape_default and escape_unicode yield for any char is
\* printable ASCII, 0x20..0x7E: a backslash, one of the letters u, t, r, n,
\* a brace, a lower-case hex digit, or the char itself, and that only when
\* it is in that range.
C25_PrintableAscii ==
    iter.kind \in {"EscapeUnicode", "EscapeDefault"} =>
        /\ \A i \in 1..Len(out) :
              /\ out[i] \in 32..126
              /\ \/ out[i] \in {92, 117, 116, 114, 110, 123, 125}
                 \/ out[i] \in HexDigitChars
                 \/ out[i] = c /\ c \in 32..126
        /\ (op = "next" /\ ret.kind = "Some") => ret.val \in 32..126
        /\ \A i \in 1..Len(Rest(iter)) : Rest(iter)[i] \in 32..126

\* a line feed through escape_default: backslash and n, no control char
C25_Witness ==
    /\ c = 10
    /\ iter.kind = "EscapeDefault"
    /\ op = "next"
    /\ ret = None
    /\ out = <<92, 110>>

\* the whole sequence of every char, by next() until it yields nothing
DefaultEscapes == [w \in Chars |-> Rest(escape_default(w))]

UnicodeEscapes == [w \in Chars |-> Rest(escape_unicode(w))]

\* C26: escape_default is injective, and so is escape_unicode: the whole
\* sequence yielded for a char is the sequence of that char and of no
\* other char, so that it identifies the char it was made from.
C26_Injective ==
    /\ (iter.kind = "EscapeDefault" /\ op = "next" /\ ret = None) =>
          \A w \in Chars : (DefaultEscapes[w] = out) <=> (w = c)
    /\ (iter.kind = "EscapeUnicode" /\ op = "next" /\ ret = None) =>
          \A w \in Chars : (UnicodeEscapes[w] = out) <=> (w = c)

\* a carriage return through escape_default: no other char yields \r
C26_Witness ==
    /\ c = 13
    /\ iter.kind = "EscapeDefault"
    /\ op = "next"
    /\ ret = None
    /\ out = <<92, 114>>
    /\ \A w \in Chars \ {13} : DefaultEscapes[w] # out

====
